---- MODULE Spec2Model ----
(***************************************************************************)
(* watchrarr.py: a directory watcher that extracts RAR archives.           *)
(*                                                                         *)
(* The model follows src/watchrarr.py: main() reads the configuration,     *)
(* loads the store (extracted_files.json), walks the tree once             *)
(* (process_existing_rar_files), starts the watchdog observer and then     *)
(* saves the store once a second until it is interrupted.  The observer    *)
(* thread delivers events to WatcherEventHandler; on_created calls         *)
(* extract_rar.                                                            *)
(*                                                                         *)
(* The environment is the file system and the user: archives appear,       *)
(* grow, complete, are written again or removed; member writes and         *)
(* renames may fail; the process may be interrupted, or killed at any      *)
(* step and started again.  Spec starts from a good configuration;         *)
(* SpecConfig covers the start of main() over all configurations.          *)
(***************************************************************************)
EXTENDS Integers, Sequences, FiniteSets, TLC

\* ---------------------------------------------------------------- bounds
\* What the environment does to the program in one run of the model: it
\* drops, writes or removes something in the tree, lets a member write or
\* rename fail, interrupts the process, or kills it.
MaxEnvSteps == 2

\* ------------------------------------------------------- the environment
\* Archive volumes that may appear in the watched directory.  All of them
\* match rar_pattern (line 136).
Paths == {"show.part1.rar", "show.part2.rar", "movie.rar"}

\* rf.infolist() of each volume: member name, declared size, and whether
\* the entry carries the first-volume flag tested at line 163.
Infolist(p) ==
    CASE p = "show.part1.rar" ->
           << [filename |-> "video.mkv", file_size |-> 2, first_volume |-> TRUE],
              [filename |-> "nfo.txt",   file_size |-> 1, first_volume |-> TRUE] >>
      [] p = "show.part2.rar" ->
           << [filename |-> "video.mkv", file_size |-> 2, first_volume |-> FALSE] >>
      [] OTHER ->
           << [filename |-> "movie.mkv", file_size |-> 1, first_volume |-> FALSE] >>

\* Other things that may appear in the watched tree: a file that is no
\* archive, and a directory whose name ends like an archive's.
OtherTargets == { [src_path |-> "notes.txt",  is_directory |-> FALSE],
                  [src_path |-> "season.rar", is_directory |-> TRUE] }

\* os.path.splitext(path.lower())[1] for the paths above (lines 46, 149)
file_ext(path) ==
    CASE path \in Paths \cup {"season.rar"} -> ".rar"
      [] path = "notes.txt" -> ".txt"
      [] OTHER -> ""

\* line 136, applied with match() to an extension: of the three alternatives
\* only \.rar$ and \.r\d\d$ can match a string that splitext returns
rar_pattern_match(ext) == ext \in {".rar", ".r00", ".r01"}

Threads == {"main", "observer"}

\* line 179/180: temp_file_path and final_file_path of a member
temp_file_path_is_final(name) == name
temp_file_path(name) == name \o ".tmp"
final_file_path(name) == name

MemberNames == UNION {{Infolist(p)[i].filename : i \in DOMAIN Infolist(p)} : p \in Paths}
FileNames == MemberNames \cup {temp_file_path(n) : n \in MemberNames}

NoFile == [arc |-> "", idx |-> 0, bytes |-> 0]
NoFrame == [pc |-> "idle", path |-> "", idx |-> 0, grew |-> FALSE, failed |-> FALSE]

VARIABLES
    main_pc,          \* position of main(): an element of MainOrder, or "exited"
    save_pc,          \* position inside save_extracted_files: "closed" | "opened"
    extracted_files,  \* the handler's dict (its keys; every value is True)
    store_file,       \* extracted_files.json on disk
    frame,            \* per thread: the running extract_rar call
    scan_todo,        \* files of the os.walk listing not yet visited
    observer,         \* "new" | "running" | "dead"
    pending,          \* created events queued for the observer thread
    other_events,     \* the other events queued for the observer thread
    config,           \* what the file named by --config holds
    args,             \* the argparse namespace that main() works with
    dump_seen,        \* the keys of extracted_files when json.dump began to iterate
    prev_snapshot,    \* what extracted_files.json held when it was last opened for writing
    disk,             \* per archive path: "absent" | "growing" | "complete"
    mtime,            \* per archive path: modification time
    fs,               \* member files in the target directory
    log_last,         \* the last line extract_rar logged
    env_steps,        \* number of drops, failed writes or renames, and kills so far
    name_bound,       \* does the name is_first_volume resolve at line 173
    exit_cause,       \* "running", or why main() has ended
    scanned,          \* history: paths the startup scan has visited in this process
    rec_mtime,        \* history: mtime of the archive when its record was added
    crashed_mid       \* history: archives whose extract_rar a kill interrupted

vars == << main_pc, save_pc, extracted_files, store_file, frame, scan_todo,
           observer, pending, disk, mtime, fs, log_last, env_steps,
           name_bound, other_events, config, args, dump_seen, prev_snapshot, exit_cause,
           scanned, rec_mtime, crashed_mid >>

\* ------------------------------------------------------------- main()
\* lines 243-271: load the store, scan, start the observer, loop.
\* ------------------------------------------------ configuration values
\* A value of a YAML document or of the namespace: its Python type and, for
\* a number, the number; for a bool, int(value); for a string, its length.
\* "absent" marks a key that the mapping does not have.
Absent == [type |-> "absent", val |-> 0]
None == [type |-> "null", val |-> 0]
BoolV(b) == [type |-> "bool", val |-> IF b THEN 1 ELSE 0]
IntV(n) == [type |-> "int", val |-> n]
StrV(len) == [type |-> "str", val |-> len]

\* isinstance(v, cls): bool is a subclass of int
isinstance(v, cls) ==
    \/ v.type = cls
    \/ cls = "int" /\ v.type = "bool"

\* the truth value that "or" tests (lines 118-123)
Truthy(v) == v.type # "null" /\ v.val # 0
Or(a, b) == IF Truthy(a) THEN a ELSE b

Ok(v) == [ok |-> TRUE, val |-> v]
Raise == [ok |-> FALSE, val |-> None]

\* lines 51-55
validate_path(c) ==
    IF c.path.type # "absent" THEN Ok(c.path) ELSE Raise

\* lines 57-62
validate_polling(c) ==
    IF c.polling.type = "absent" THEN Ok(None)
    ELSE IF ~ isinstance(c.polling, "bool") THEN Raise
    ELSE Ok(c.polling)

\* lines 64-69
validate_interval(c) ==
    IF c.interval.type = "absent" THEN Ok(None)
    ELSE IF \/ ~ (isinstance(c.interval, "int") \/ isinstance(c.interval, "float"))
            \/ c.interval.val <= 0
            \/ c.interval.val > 300 THEN Raise
    ELSE Ok(c.interval)

\* lines 71-76
validate_log_file(c) ==
    IF c.log_file.type = "absent" THEN Ok(None)
    ELSE IF ~ isinstance(c.log_file, "str") THEN Raise
    ELSE Ok(c.log_file)

\* lines 78-83
validate_debug(c) ==
    IF c.debug.type = "absent" THEN Ok(None)
    ELSE IF ~ isinstance(c.debug, "bool") THEN Raise
    ELSE Ok(c.debug)

\* lines 85-91
validate_max_log_size(c) ==
    IF c.max_log_size.type = "absent" THEN Ok(None)
    ELSE IF \/ ~ isinstance(c.max_log_size, "int")
            \/ c.max_log_size.val < 10
            \/ c.max_log_size.val > 100 THEN Raise
    ELSE Ok(IntV(c.max_log_size.val * 1024 * 1024))

\* lines 93-98
validate_log_backup_count(c) ==
    IF c.log_backup_count.type = "absent" THEN Ok(None)
    ELSE IF \/ ~ isinstance(c.log_backup_count, "int")
            \/ c.log_backup_count.val < 1
            \/ c.log_backup_count.val > 100 THEN Raise
    ELSE Ok(c.log_backup_count)

\* lines 280-287: the defaults of the command line
DefaultArgs ==
    [path |-> None, polling |-> BoolV(FALSE), interval |-> IntV(5), log_file |-> StrV(13),
     debug |-> BoolV(FALSE), max_log_size |-> IntV(10), log_backup_count |-> IntV(9)]

\* a mapping without any key
NoKeys ==
    [path |-> Absent, polling |-> Absent, interval |-> Absent, log_file |-> Absent,
     debug |-> Absent, max_log_size |-> Absent, log_backup_count |-> Absent]

\* config.yaml: the file may be missing, empty, no YAML, or hold a mapping
GoodConfig == [kind |-> "mapping", map |-> [NoKeys EXCEPT !.path = StrV(6)]]

Configs ==
    { [kind |-> k, map |-> NoKeys] : k \in {"missing", "empty", "malformed"} }
    \cup
    { [kind |-> "mapping", map |-> m] :
        m \in [path : {Absent, StrV(6), IntV(5), None},
               polling : {Absent, BoolV(TRUE), StrV(3)},
               interval : {Absent, IntV(5), IntV(0), IntV(301), BoolV(TRUE)},
               log_file : {Absent, StrV(7), IntV(5)},
               debug : {Absent, BoolV(FALSE), IntV(1)},
               max_log_size : {Absent, IntV(10), IntV(9), IntV(101), BoolV(TRUE)},
               log_backup_count : {Absent, IntV(1), IntV(0), IntV(101), BoolV(TRUE)}] }

CommandLines == { DefaultArgs, [DefaultArgs EXCEPT !.path = StrV(6)] }

MainOrderSwapped == << "config", "load", "observer", "scan", "loop" >>
MainOrder == << "config", "load", "scan", "observer", "loop" >>

PcAfter(pc) ==
    LET i == CHOOSE k \in 1..Len(MainOrder) : MainOrder[k] = pc
    IN  MainOrder[i + 1]

\* os.walk listing filtered by rar_pattern (lines 44-47)
Listing == {p \in Paths : disk[p] # "absent"}

\* everything but the configuration file and the command line
InitRest ==
    /\ main_pc = "config"
    /\ save_pc = "closed"
    /\ extracted_files = {}
    /\ store_file = [kind |-> "absent", recs |-> {}]
    /\ frame = [t \in Threads |-> NoFrame]
    /\ scan_todo = {}
    /\ observer = "new"
    /\ pending = {}
    /\ other_events = {}
    /\ dump_seen = {}
    /\ prev_snapshot = {}
    /\ disk \in [Paths -> {"absent", "complete"}]
    /\ mtime = [p \in Paths |-> 0]
    /\ fs = [f \in FileNames |-> NoFile]
    /\ log_last = [msg |-> "", path |-> ""]
    /\ env_steps = 0
    /\ name_bound \in BOOLEAN
    /\ exit_cause = "running"
    /\ scanned = {}
    /\ rec_mtime = [p \in Paths |-> -1]
    /\ crashed_mid = {}

\* started as "watchrarr.py" beside a config.yaml that names the tree
Init ==
    /\ InitRest
    /\ config = GoodConfig
    /\ args = DefaultArgs

\* --------------------------------------------------- WatcherEventHandler
\* line 168: the dedup test, on the path alone
RecordedNever(p) == FALSE
Recorded(p) == p \in extracted_files

\* lines 160-165
is_first_volume(p) == \E i \in DOMAIN Infolist(p) : Infolist(p)[i].first_volume

Log(m, p) == log_last' = [msg |-> m, path |-> p]

\* lines 167-170: entry of extract_rar(rar_file_path) in thread t
extract_rar(t, p) ==
    IF Recorded(p)
    THEN /\ Log("Skipping already extracted file", p)
         /\ frame' = [frame EXCEPT ![t] = NoFrame]
    ELSE /\ frame' = [frame EXCEPT ![t] = [NoFrame EXCEPT !.pc = "open", !.path = p]]
         /\ UNCHANGED log_last

\* An exception that no handler of extract_rar catches leaves the call.
\* In the main thread it leaves process_existing_rar_files and main()
\* (nothing around line 252 catches it): the process ends.  In the observer
\* thread it leaves on_created and ends the dispatching thread; main() keeps
\* looping.
Propagate(t) ==
    /\ frame' = [frame EXCEPT ![t] = NoFrame]
    /\ IF t = "main"
       THEN /\ main_pc' = "exited"
            /\ exit_cause' = "scan_error"
            /\ scan_todo' = {}
            /\ UNCHANGED observer
       ELSE /\ observer' = "dead"
            /\ UNCHANGED << main_pc, scan_todo, exit_cause >>

\* line 172: rarfile.RarFile(rar_file_path).  A complete archive opens; one
\* that is still being written may open (its headers are there) or raise
\* rarfile.Error, which line 197 catches before line 199 runs; one that has
\* been removed since it was listed or reported cannot be opened at all.
OpenArchive(t) ==
    /\ frame[t].pc = "open"
    /\ LET p == frame[t].path IN
       \/ /\ disk[p] \in {"growing", "complete"}
          /\ frame' = [frame EXCEPT ![t].pc = "check", ![t].grew = (disk[p] = "growing")]
          /\ UNCHANGED << log_last, main_pc, scan_todo, observer, exit_cause >>
       \/ /\ disk[p] = "growing"
          /\ frame' = [frame EXCEPT ![t].pc = "record", ![t].grew = TRUE]
          /\ Log("Failed to extract", p)
          /\ UNCHANGED << main_pc, scan_todo, observer, exit_cause >>
       \/ /\ disk[p] = "absent"          \* FileNotFoundError, an OSError: line 197 does not catch it
          /\ Propagate(t)
          /\ UNCHANGED log_last
    /\ UNCHANGED << save_pc, extracted_files, store_file, pending, disk, mtime, fs,
                    env_steps, name_bound, config, args, dump_seen, prev_snapshot, other_events, scanned, rec_mtime, crashed_mid >>

\* line 173.  is_first_volume is defined in the class body (line 160) and
\* named here without qualification.  A method does not see the names of its
\* class body, so as the file stands the name is unbound in extract_rar
\* (name_bound = FALSE) and the call raises NameError, which is not a
\* rarfile.Error: lines 174-196 are then never reached.  name_bound = TRUE is
\* the program in which the call reaches the function of line 160, as
\* lines 173-199 are written to work.  Init leaves the choice open and no
\* action changes it, so every invariant of Spec holds of both programs.
CheckNameError(t) ==
    /\ frame[t].pc = "check"
    /\ ~ name_bound
    /\ Propagate(t)
    /\ UNCHANGED << save_pc, extracted_files, store_file, pending, disk, mtime, fs,
                    log_last, env_steps, name_bound, config, args, dump_seen, prev_snapshot, other_events, scanned, rec_mtime, crashed_mid >>

\* lines 173-178 as written: the call of the function of line 160.
CheckFirstVolumeRecords(t) ==
    /\ frame[t].pc = "check"
    /\ name_bound
    /\ LET p == frame[t].path IN
       IF ~ is_first_volume(p)
       THEN /\ Log("Skipping non-first volume", p)
            /\ frame' = [frame EXCEPT ![t] = NoFrame]
            /\ extracted_files' = extracted_files \cup {p}
       ELSE /\ frame' = [frame EXCEPT ![t].pc = "tmp_open", ![t].idx = 1]
            /\ UNCHANGED << log_last, extracted_files >>
    /\ UNCHANGED << main_pc, save_pc, store_file, scan_todo, observer, pending, disk,
                    mtime, fs, env_steps, name_bound, config, args, dump_seen, prev_snapshot, other_events, exit_cause, scanned,
                    rec_mtime, crashed_mid >>

CheckFirstVolume(t) ==
    /\ frame[t].pc = "check"
    /\ name_bound
    /\ LET p == frame[t].path IN
       IF ~ is_first_volume(p)
       THEN /\ Log("Skipping non-first volume", p)
            /\ frame' = [frame EXCEPT ![t] = NoFrame]
       ELSE /\ frame' = [frame EXCEPT ![t].pc = "tmp_open", ![t].idx = 1]
            /\ UNCHANGED log_last
    /\ UNCHANGED << main_pc, save_pc, extracted_files, store_file, scan_todo, observer,
                    pending, disk, mtime, fs, env_steps, name_bound, config, args, dump_seen, prev_snapshot, other_events, exit_cause, scanned, rec_mtime, crashed_mid >>

\* `continue` and the normal end of the loop body: the next entry, or
\* line 199 after the last one.
NextEntry(fr) ==
    IF fr.idx < Len(Infolist(fr.path))
    THEN [fr EXCEPT !.pc = "tmp_open", !.idx = fr.idx + 1]
    ELSE [fr EXCEPT !.pc = "record"]

\* line 184: open(temp_file_path, 'wb') creates or truncates the file
OpenTmp(t) ==
    /\ frame[t].pc = "tmp_open"
    /\ LET fr == frame[t]
           e == Infolist(fr.path)[fr.idx]
       IN \/ /\ fs' = [fs EXCEPT ![temp_file_path(e.filename)] =
                                   [arc |-> fr.path, idx |-> fr.idx, bytes |-> 0]]
             /\ frame' = [frame EXCEPT ![t].pc = "tmp_write"]
             /\ UNCHANGED << log_last, env_steps >>
          \/ /\ env_steps < MaxEnvSteps                           \* OSError, line 186
             /\ env_steps' = env_steps + 1
             /\ frame' = [frame EXCEPT ![t] = NextEntry([fr EXCEPT !.failed = TRUE])]
             /\ Log("Failed to write", temp_file_path(e.filename))
             /\ UNCHANGED fs
    /\ UNCHANGED << main_pc, save_pc, extracted_files, store_file, scan_todo, observer,
                    pending, disk, mtime, name_bound, config, args, dump_seen, prev_snapshot, other_events, exit_cause, scanned, rec_mtime, crashed_mid >>

\* line 185: tmp_file.write(rf.read(entry)), and the close at the end of
\* the with block
WriteTmp(t) ==
    /\ frame[t].pc = "tmp_write"
    /\ LET fr == frame[t]
           e == Infolist(fr.path)[fr.idx]
           tmp == temp_file_path(e.filename)
       IN \/ /\ fs' = [fs EXCEPT ![tmp].bytes = e.file_size]
             /\ frame' = [frame EXCEPT ![t].pc = "rename"]
             /\ UNCHANGED << log_last, env_steps >>
          \/ \E k \in 0..(e.file_size - 1) :                      \* lines 186-188
                /\ env_steps < MaxEnvSteps
                /\ env_steps' = env_steps + 1
                /\ fs' = [fs EXCEPT ![tmp].bytes = k]
                /\ frame' = [frame EXCEPT ![t] = NextEntry([fr EXCEPT !.failed = TRUE])]
                /\ Log("Failed to write", tmp)
    /\ UNCHANGED << main_pc, save_pc, extracted_files, store_file, scan_todo, observer,
                    pending, disk, mtime, name_bound, config, args, dump_seen, prev_snapshot, other_events, exit_cause, scanned, rec_mtime, crashed_mid >>

\* line 191: os.rename(temp_file_path, final_file_path)
RenameTmp(t) ==
    /\ frame[t].pc = "rename"
    /\ LET fr == frame[t]
           e == Infolist(fr.path)[fr.idx]
           tmp == temp_file_path(e.filename)
           final == final_file_path(e.filename)
       IN \/ /\ fs' = [fs EXCEPT ![final] = fs[tmp], ![tmp] = NoFile]
             /\ frame' = [frame EXCEPT ![t] = NextEntry(fr)]
             /\ Log("has been created", final)                    \* line 196
             /\ UNCHANGED env_steps
          \/ /\ env_steps < MaxEnvSteps                           \* lines 192-194
             /\ env_steps' = env_steps + 1
             /\ frame' = [frame EXCEPT ![t] = NextEntry([fr EXCEPT !.failed = TRUE])]
             /\ Log("Failed to rename", tmp)
             /\ UNCHANGED fs
    /\ UNCHANGED << main_pc, save_pc, extracted_files, store_file, scan_todo, observer,
                    pending, disk, mtime, name_bound, config, args, dump_seen, prev_snapshot, other_events, exit_cause, scanned, rec_mtime, crashed_mid >>

\* line 199 moved in front of the loop of line 178
RecordBeforeLoop(t) ==
    /\ frame[t].pc = "tmp_open"
    /\ frame[t].idx = 1
    /\ frame[t].path \notin extracted_files
    /\ extracted_files' = extracted_files \cup {frame[t].path}
    /\ rec_mtime' = [rec_mtime EXCEPT ![frame[t].path] = mtime[frame[t].path]]
    /\ UNCHANGED << main_pc, save_pc, store_file, frame, scan_todo, observer, pending, disk,
                    mtime, fs, log_last, env_steps, name_bound, config, args, dump_seen, prev_snapshot, other_events, exit_cause, scanned, crashed_mid >>

\* line 199: self.extracted_files[rar_file_path] = True
RecordExtracted(t) ==
    /\ frame[t].pc = "record"
    /\ extracted_files' = extracted_files \cup {frame[t].path}
    /\ rec_mtime' = [rec_mtime EXCEPT ![frame[t].path] = mtime[frame[t].path]]
    /\ frame' = [frame EXCEPT ![t] = NoFrame]
    /\ UNCHANGED << main_pc, save_pc, store_file, scan_todo, observer, pending, disk,
                    mtime, fs, log_last, env_steps, name_bound, config, args, dump_seen, prev_snapshot, other_events, exit_cause, scanned, crashed_mid >>

\* lines 144-152: on_created for a path that matches rar_pattern
on_created(p) ==
    /\ observer = "running"
    /\ frame["observer"].pc = "idle"
    /\ p \in pending
    /\ pending' = pending \ {p}
    /\ extract_rar("observer", p)
    /\ UNCHANGED << main_pc, save_pc, extracted_files, store_file, scan_todo, observer,
                    disk, mtime, fs, env_steps, name_bound, config, args, dump_seen, prev_snapshot, other_events, exit_cause, scanned, rec_mtime, crashed_mid >>

\* the observer thread takes event e from its queue
Dispatch(e) ==
    /\ observer = "running"
    /\ frame["observer"].pc = "idle"
    /\ e \in other_events
    /\ other_events' = other_events \ {e}

\* lines 144-150: on_created for a directory or for a path that does not
\* match rar_pattern returns without calling extract_rar
on_created_ignored(e) ==
    /\ e.kind = "created"
    /\ e.is_directory \/ ~ rar_pattern_match(file_ext(e.src_path))
    /\ Dispatch(e)
    /\ UNCHANGED << main_pc, save_pc, extracted_files, store_file, frame, scan_todo,
                    observer, pending, disk, mtime, fs, log_last, env_steps, name_bound, config, args, dump_seen, prev_snapshot,
                    exit_cause, scanned, rec_mtime, crashed_mid >>

\* lines 141-142: on_modified only logs at debug level
on_modified(e) ==
    /\ e.kind = "modified"
    /\ Dispatch(e)
    /\ UNCHANGED << main_pc, save_pc, extracted_files, store_file, frame, scan_todo,
                    observer, pending, disk, mtime, fs, log_last, env_steps, name_bound, config, args, dump_seen, prev_snapshot,
                    exit_cause, scanned, rec_mtime, crashed_mid >>

on_deleted_forgets(e) ==
    /\ e.kind = "deleted"
    /\ Dispatch(e)
    /\ extracted_files' = extracted_files \ {e.src_path}
    /\ UNCHANGED << main_pc, save_pc, store_file, frame, scan_todo, observer, pending,
                    disk, mtime, fs, log_last, env_steps, name_bound, config, args, dump_seen,
                    prev_snapshot, exit_cause, scanned, rec_mtime, crashed_mid >>

\* lines 154-155: on_deleted only logs at debug level
on_deleted(e) ==
    /\ e.kind = "deleted"
    /\ Dispatch(e)
    /\ UNCHANGED << main_pc, save_pc, extracted_files, store_file, frame, scan_todo,
                    observer, pending, disk, mtime, fs, log_last, env_steps, name_bound, config, args, dump_seen, prev_snapshot,
                    exit_cause, scanned, rec_mtime, crashed_mid >>

\* lines 157-158: on_moved only logs at debug level
on_moved(e) ==
    /\ e.kind = "moved"
    /\ Dispatch(e)
    /\ UNCHANGED << main_pc, save_pc, extracted_files, store_file, frame, scan_todo,
                    observer, pending, disk, mtime, fs, log_last, env_steps, name_bound, config, args, dump_seen, prev_snapshot,
                    exit_cause, scanned, rec_mtime, crashed_mid >>

\* ------------------------------------------------------------- main()
EnterPc(next) ==
    /\ main_pc' = next
    /\ scan_todo' = IF next = "scan" THEN Listing ELSE {}

\* lines 107-133 and 234-241.  The assignments of lines 117-123 run in order
\* until one validate_ function raises; setup_logging is taken to succeed.
update_args_from_config ==
    /\ main_pc = "config"
    /\ LET c == config.map
           r1 == validate_path(c)
           r2 == validate_polling(c)
           r3 == validate_interval(c)
           r4 == validate_log_file(c)
           r5 == validate_debug(c)
           r6 == validate_max_log_size(c)
           r7 == validate_log_backup_count(c)
           ok1 == r1.ok
           ok2 == ok1 /\ r2.ok
           ok3 == ok2 /\ r3.ok
           ok4 == ok3 /\ r4.ok
           ok5 == ok4 /\ r5.ok
           ok6 == ok5 /\ r6.ok
           ok7 == ok6 /\ r7.ok
       IN IF config.kind # "mapping"
          THEN /\ main_pc' = "exited"               \* lines 125-130 or 111-112, 131-133
               /\ exit_cause' = "config_error"
               /\ UNCHANGED << args, scan_todo >>
          ELSE /\ args' = [path |-> IF ok1 THEN r1.val ELSE args.path,
                           polling |-> IF ok2 THEN Or(r2.val, args.polling) ELSE args.polling,
                           interval |-> IF ok3 THEN Or(r3.val, args.interval) ELSE args.interval,
                           log_file |-> IF ok4 THEN Or(r4.val, args.log_file) ELSE args.log_file,
                           debug |-> IF ok5 THEN Or(r5.val, args.debug) ELSE args.debug,
                           max_log_size |-> IF ok6 THEN Or(r6.val, args.max_log_size)
                                                   ELSE args.max_log_size,
                           log_backup_count |-> IF ok7 THEN Or(r7.val, args.log_backup_count)
                                                       ELSE args.log_backup_count]
               /\ IF ok7
                  THEN /\ EnterPc(PcAfter("config"))
                       /\ UNCHANGED exit_cause
                  ELSE /\ main_pc' = "exited"       \* lines 131-133
                       /\ exit_cause' = "config_error"
                       /\ UNCHANGED scan_todo
    /\ UNCHANGED << save_pc, extracted_files, store_file, frame, observer, pending, disk,
                    mtime, fs, log_last, env_steps, name_bound, other_events, config,
                    dump_seen, prev_snapshot, scanned, rec_mtime, crashed_mid >>

\* lines 43-44: os.walk(path) raises TypeError for a path that is no string,
\* and nothing in main() catches it
WalkFails ==
    /\ main_pc = "scan"
    /\ ~ isinstance(args.path, "str")
    /\ main_pc' = "exited"
    /\ exit_cause' = "scan_error"
    /\ scan_todo' = {}
    /\ UNCHANGED << save_pc, extracted_files, store_file, frame, observer, pending, disk,
                    mtime, fs, log_last, env_steps, name_bound, other_events, config, args,
                    dump_seen, prev_snapshot, scanned, rec_mtime, crashed_mid >>

\* lines 25-36 and 244-246.  json.load of a file that does not hold one
\* complete JSON document raises, and nothing in main() catches it.
load_extracted_files ==
    /\ main_pc = "load"
    /\ IF store_file.kind = "torn"
       THEN /\ main_pc' = "exited"
            /\ exit_cause' = "load_error"
            /\ UNCHANGED << extracted_files, scan_todo >>
       ELSE /\ extracted_files' = store_file.recs
            /\ EnterPc(PcAfter("load"))
            /\ UNCHANGED exit_cause
    /\ UNCHANGED << save_pc, store_file, frame, observer, pending, disk, mtime, fs,
                    log_last, env_steps, name_bound, config, args, dump_seen, prev_snapshot, other_events, scanned, rec_mtime, crashed_mid >>

\* lines 44-49: one iteration of the walk
process_existing_rar_files ==
    /\ main_pc = "scan"
    /\ isinstance(args.path, "str")
    /\ frame["main"].pc = "idle"
    /\ \E p \in scan_todo :
          /\ scan_todo' = scan_todo \ {p}
          /\ scanned' = scanned \cup {p}
          /\ extract_rar("main", p)
    /\ UNCHANGED << main_pc, save_pc, extracted_files, store_file, observer, pending,
                    disk, mtime, fs, env_steps, name_bound, config, args, dump_seen, prev_snapshot, other_events, exit_cause, rec_mtime, crashed_mid >>

\* line 252 returns
ScanDone ==
    /\ main_pc = "scan"
    /\ isinstance(args.path, "str")
    /\ frame["main"].pc = "idle"
    /\ scan_todo = {}
    /\ EnterPc(PcAfter("scan"))
    /\ UNCHANGED << save_pc, extracted_files, store_file, frame, observer, pending,
                    disk, mtime, fs, log_last, env_steps, name_bound, config, args, dump_seen, prev_snapshot, other_events, exit_cause, scanned, rec_mtime, crashed_mid >>

\* lines 255-262
StartObserver ==
    /\ main_pc = "observer"
    /\ observer' = "running"
    /\ EnterPc(PcAfter("observer"))
    /\ UNCHANGED << save_pc, extracted_files, store_file, frame, pending, disk, mtime,
                    fs, log_last, env_steps, name_bound, config, args, dump_seen, prev_snapshot, other_events, exit_cause, scanned, rec_mtime, crashed_mid >>

\* line 39: open(file_path, 'w') truncates extracted_files.json
SaveOpen ==
    /\ main_pc \in {"loop", "final_save"}
    /\ save_pc = "closed"
    /\ save_pc' = "opened"
    /\ store_file' = [kind |-> "torn", recs |-> {}]
    /\ prev_snapshot' = IF store_file.kind = "json" THEN store_file.recs ELSE {}
    /\ UNCHANGED << main_pc, extracted_files, frame, scan_todo, observer, pending, disk,
                    mtime, fs, log_last, env_steps, name_bound, config, args, other_events, dump_seen,
                    exit_cause, scanned, rec_mtime, crashed_mid >>

\* line 40: json.dump writes piece by piece from an iteration over the live
\* dictionary; the iteration starts here.  An empty dictionary is written
\* without one.
SaveIterate ==
    /\ main_pc \in {"loop", "final_save"}
    /\ save_pc = "opened"
    /\ extracted_files # {}
    /\ save_pc' = "iterating"
    /\ dump_seen' = extracted_files
    /\ UNCHANGED << main_pc, extracted_files, store_file, frame, scan_todo, observer,
                    pending, disk, mtime, fs, log_last, env_steps, name_bound, config, args, other_events,
                    prev_snapshot, exit_cause, scanned, rec_mtime, crashed_mid >>

\* line 40 to its end, and the close of line 39.  If the dictionary has got
\* a key since the iteration began, the iterator raises RuntimeError
\* ("dictionary changed size during iteration"); neither line 269 nor line
\* 274 is inside a try that catches it, so main() ends, and the file keeps
\* the pieces written so far.  The observer's threads are daemon threads.
SaveDump ==
    /\ main_pc \in {"loop", "final_save"}
    /\ \/ save_pc = "opened" /\ extracted_files = {}
       \/ save_pc = "iterating"
    /\ save_pc' = "closed"
    /\ dump_seen' = {}
    /\ IF save_pc = "iterating" /\ dump_seen # extracted_files
       THEN /\ main_pc' = "exited"
            /\ exit_cause' = "save_error"
            /\ observer' = "dead"                  \* a daemon thread: it ends with main()
            /\ frame' = [t \in Threads |-> NoFrame]
            /\ UNCHANGED store_file
       ELSE /\ store_file' = [kind |-> "json", recs |-> extracted_files]
            /\ main_pc' = IF main_pc = "final_save" THEN "join" ELSE main_pc   \* line 275 follows line 274
            /\ UNCHANGED << exit_cause, observer, frame >>
    /\ UNCHANGED << extracted_files, scan_todo, pending, disk, mtime, fs,
                    log_last, env_steps, name_bound, config, args, other_events, prev_snapshot, scanned,
                    rec_mtime, crashed_mid >>

\* KeyboardInterrupt reaches the main thread outside the try block of
\* lines 268-274 (during the scan of line 252 or the observer set-up):
\* nothing catches it and main() ends with a traceback, without a save.
InterruptUncaught ==
    /\ env_steps < MaxEnvSteps
    /\ env_steps' = env_steps + 1
    /\ main_pc \in {"scan", "observer"}
    /\ main_pc' = "exited"
    /\ exit_cause' = "interrupt_uncaught"
    /\ frame' = [frame EXCEPT !["main"] = NoFrame]
    /\ scan_todo' = {}
    /\ UNCHANGED << save_pc, extracted_files, store_file, observer, pending, disk, mtime,
                    fs, log_last, name_bound, config, args, dump_seen, prev_snapshot, other_events, scanned, rec_mtime, crashed_mid >>

\* lines 272-273: KeyboardInterrupt inside the loop (in the sleep or inside
\* save_extracted_files, whose with block then closes the file as it is);
\* observer.stop() lets the observer thread finish the handler it is in and
\* deliver no further event
InterruptCaught ==
    /\ env_steps < MaxEnvSteps
    /\ env_steps' = env_steps + 1
    /\ main_pc = "loop"
    /\ main_pc' = "final_save"
    /\ save_pc' = "closed"
    /\ dump_seen' = {}
    /\ observer' = IF observer = "running" THEN "stopping" ELSE observer
    /\ UNCHANGED << extracted_files, store_file, frame, scan_todo, pending, disk, mtime,
                    fs, log_last, name_bound, config, args, prev_snapshot, other_events, exit_cause, scanned, rec_mtime,
                    crashed_mid >>

\* line 275: observer.join() returns when the observer thread has ended;
\* main() returns and the process exits with status 0
JoinObserver ==
    /\ main_pc = "join"
    /\ observer = "dead" \/ frame["observer"].pc = "idle"
    /\ main_pc' = "exited"
    /\ exit_cause' = "interrupt"
    /\ observer' = "dead"
    /\ UNCHANGED << save_pc, extracted_files, store_file, frame, scan_todo, pending, disk,
                    mtime, fs, log_last, env_steps, name_bound, config, args, dump_seen, prev_snapshot, other_events, scanned, rec_mtime,
                    crashed_mid >>

\* the exit status of the process once main() has ended
ExitStatus == IF exit_cause = "interrupt" THEN 0 ELSE 1

\* ------------------------------------------------------------ environment
\* The watched tree is followed while the program runs.  What happens to it
\* after main() has ended reaches the next run as it would if it happened
\* while that run is at its first step.
Running == main_pc # "exited"

Notify(p) == pending' = IF observer = "running" THEN pending \cup {p} ELSE pending

Event(k, path, dir) == [kind |-> k, src_path |-> path, is_directory |-> dir]

NotifyOther(e) ==
    other_events' = IF observer = "running" THEN other_events \cup {e} ELSE other_events

\* a new archive starts to arrive
Drop(p) ==
    /\ Running
    /\ disk[p] = "absent"
    /\ disk' = [disk EXCEPT ![p] = "growing"]
    /\ env_steps < MaxEnvSteps
    /\ env_steps' = env_steps + 1
    /\ Notify(p)
    /\ UNCHANGED << main_pc, save_pc, extracted_files, store_file, frame, scan_todo,
                    observer, mtime, fs, log_last, name_bound, config, args, dump_seen, prev_snapshot, other_events, exit_cause, scanned, rec_mtime, crashed_mid >>

\* its transfer ends
Finish(p) ==
    /\ Running
    /\ disk[p] = "growing"
    /\ disk' = [disk EXCEPT ![p] = "complete"]
    /\ UNCHANGED << main_pc, save_pc, extracted_files, store_file, frame, scan_todo,
                    observer, pending, mtime, fs, log_last, env_steps, name_bound, config, args, other_events, dump_seen, prev_snapshot, exit_cause, scanned, rec_mtime,
                    crashed_mid >>

\* an archive of the same name is put in its place, with a newer mtime
Redrop(p) ==
    /\ Running
    /\ disk[p] = "complete"
    /\ mtime' = [mtime EXCEPT ![p] = mtime[p] + 1]
    /\ env_steps < MaxEnvSteps
    /\ env_steps' = env_steps + 1
    /\ Notify(p)
    /\ UNCHANGED << main_pc, save_pc, extracted_files, store_file, frame, scan_todo,
                    observer, disk, fs, log_last, name_bound, config, args, dump_seen, prev_snapshot, other_events, exit_cause, scanned, rec_mtime, crashed_mid >>

\* a write to an archive that is there, which the observer reports as a
\* modified event
Modify(p) ==
    /\ Running
    /\ observer = "running"
    /\ disk[p] \in {"growing", "complete"}
    /\ env_steps < MaxEnvSteps
    /\ env_steps' = env_steps + 1
    /\ NotifyOther(Event("modified", p, FALSE))
    /\ UNCHANGED << main_pc, save_pc, extracted_files, store_file, frame, scan_todo,
                    observer, pending, disk, mtime, fs, log_last, name_bound, config, args, dump_seen,
                    prev_snapshot, exit_cause, scanned, rec_mtime, crashed_mid >>

\* an archive is deleted, or moved out of the watched tree
Remove(p, k) ==
    /\ Running
    /\ disk[p] = "complete"
    /\ disk' = [disk EXCEPT ![p] = "absent"]
    /\ env_steps < MaxEnvSteps
    /\ env_steps' = env_steps + 1
    /\ NotifyOther(Event(k, p, FALSE))
    /\ UNCHANGED << main_pc, save_pc, extracted_files, store_file, frame, scan_todo,
                    observer, pending, mtime, fs, log_last, name_bound, config, args, dump_seen, prev_snapshot, exit_cause, scanned,
                    rec_mtime, crashed_mid >>

\* something that is no archive file is created in the watched tree
CreateOther(x) ==
    /\ Running
    /\ observer = "running"
    /\ env_steps < MaxEnvSteps
    /\ env_steps' = env_steps + 1
    /\ NotifyOther(Event("created", x.src_path, x.is_directory))
    /\ UNCHANGED << main_pc, save_pc, extracted_files, store_file, frame, scan_todo,
                    observer, pending, disk, mtime, fs, log_last, name_bound, config, args, dump_seen, prev_snapshot, exit_cause,
                    scanned, rec_mtime, crashed_mid >>

\* lines 178-196: the call is inside the loop over the members
InMembers(fr) == fr.pc \in {"tmp_open", "tmp_write", "rename"}

\* lines 173-196: the call is inside the with block, the archive is open
InArchive(fr) == fr.pc = "check" \/ InMembers(fr)

\* the process is killed (or has ended) and is started again: memory is
\* lost, the files stay as they are
Restart ==
    /\ env_steps < MaxEnvSteps
    /\ env_steps' = env_steps + 1
    /\ crashed_mid' = crashed_mid \cup {frame[t].path : t \in {u \in Threads : InArchive(frame[u])}}
    /\ main_pc' = "config"
    /\ args' = DefaultArgs
    /\ save_pc' = "closed"
    /\ extracted_files' = {}
    /\ frame' = [t \in Threads |-> NoFrame]
    /\ scan_todo' = {}
    /\ observer' = "new"
    /\ pending' = {}
    /\ other_events' = {}
    /\ dump_seen' = {}
    /\ prev_snapshot' = {}
    /\ scanned' = {}
    /\ exit_cause' = "running"
    /\ UNCHANGED << store_file, disk, mtime, fs, log_last, name_bound, config, rec_mtime >>

Next ==
    \/ update_args_from_config
    \/ load_extracted_files
    \/ process_existing_rar_files
    \/ ScanDone
    \/ StartObserver
    \/ SaveOpen
    \/ SaveIterate
    \/ SaveDump
    \/ InterruptUncaught
    \/ InterruptCaught
    \/ JoinObserver
    \/ \E p \in Paths : on_created(p)
    \/ \E e \in other_events : on_created_ignored(e)
    \/ \E e \in other_events : on_modified(e)
    \/ \E e \in other_events : on_deleted(e)
    \/ \E e \in other_events : on_moved(e)
    \/ \E t \in Threads : OpenArchive(t)
    \/ \E t \in Threads : CheckNameError(t)
    \/ \E t \in Threads : CheckFirstVolume(t)
    \/ \E t \in Threads : OpenTmp(t)
    \/ \E t \in Threads : WriteTmp(t)
    \/ \E t \in Threads : RenameTmp(t)
    \/ \E t \in Threads : RecordExtracted(t)
    \/ \E p \in Paths : Drop(p)
    \/ \E p \in Paths : Finish(p)
    \/ \E p \in Paths : Redrop(p)
    \/ \E p \in Paths : Modify(p)
    \/ \E p \in Paths, k \in {"deleted", "moved"} : Remove(p, k)
    \/ \E x \in OtherTargets : CreateOther(x)
    \/ Restart

Spec == Init /\ [][Next]_vars

\* The start of main() over every configuration file and both ways of giving
\* the path, in an empty tree.
InitConfig ==
    /\ InitRest
    /\ disk = [p \in Paths |-> "absent"]
    /\ name_bound = FALSE
    /\ config \in Configs
    /\ args \in CommandLines

NextConfig ==
    \/ update_args_from_config
    \/ load_extracted_files
    \/ WalkFails
    \/ ScanDone
    \/ StartObserver

SpecConfig == InitConfig /\ [][NextConfig]_vars

TypeOK ==
    /\ main_pc \in {"config", "load", "scan", "observer", "loop", "final_save", "join", "exited"}
    /\ save_pc \in {"closed", "opened", "iterating"}
    /\ dump_seen \subseteq Paths
    /\ prev_snapshot \subseteq Paths
    /\ extracted_files \subseteq Paths
    /\ store_file.kind \in {"absent", "json", "torn"}
    /\ observer \in {"new", "running", "stopping", "dead"}
    /\ pending \subseteq Paths
    /\ config \in Configs
    /\ args.path \in {None, StrV(6), IntV(5)}

\* ------------------------------------------------------------ properties
\* every member of archive p is in the target directory under its final
\* name, whole
AllMembersExtracted(p) ==
    \A i \in DOMAIN Infolist(p) :
        fs[final_file_path(Infolist(p)[i].filename)] =
            [arc |-> p, idx |-> i, bytes |-> Infolist(p)[i].file_size]

\* this step hands path p to extract_rar in thread t: the walk of line 45
\* visits it, or the observer thread delivers its created event
Discovers(t, p) ==
    \/ /\ t = "main"
       /\ main_pc = "scan" /\ main_pc' = "scan"
       /\ frame[t].pc = "idle"
       /\ p \in scan_todo /\ scan_todo' = scan_todo \ {p}
    \/ /\ t = "observer"
       /\ observer = "running" /\ observer' = "running"
       /\ frame[t].pc = "idle"
       /\ p \in pending /\ pending' = pending \ {p}

C3_EligibleIffNewOrNewer ==
    [][\A t \in Threads, p \in Paths :
          Discovers(t, p)
              => ((frame'[t].pc = "open")
                    <=> (p \notin extracted_files \/ mtime[p] > rec_mtime[p]))]_vars

C5_OneAttemptInFlight ==
    \A t1, t2 \in Threads :
        (t1 # t2 /\ frame[t1].pc # "idle" /\ frame[t2].pc # "idle")
            => frame[t1].path # frame[t2].path

C5_Witness ==
    \E p \in scanned :
        /\ frame["observer"].pc \notin {"idle", "open"}
        /\ frame["observer"].path = p

\* C6: extract_rar never opens an archive that is still growing.
C6_NoExtractionWhileGrowing ==
    \A t \in Threads : frame[t].pc \notin {"idle", "open"} => ~ frame[t].grew

\* C7: an archive that the reader could not open is not added to
\* extracted_files by that call.
C7_UnopenedNotRecorded ==
    [][\A t \in Threads :
          (frame[t].pc = "record" /\ frame[t].idx = 0)
              => frame[t].path \notin extracted_files']_vars

\* C8: whenever the process starts, extracted_files.json is absent or holds
\* one complete document.
C8_StoreFileLoadableAtStart ==
    main_pc = "load" => store_file.kind # "torn"

C10_ReextractedAfterCrash ==
    \A p \in crashed_mid :
        (\/ main_pc \in {"observer", "loop"}
         \/ main_pc = "exited" /\ exit_cause \in {"load_error", "scan_error"})
            => AllMembersExtracted(p)

\* what a later process would load from extracted_files.json
PersistedRecords == IF store_file.kind = "json" THEN store_file.recs ELSE {}

\* C11: when an interrupt has ended the process, the exit status is 0 and
\* every archive recorded before the exit is in extracted_files.json.
C11_InterruptSavesAndExitsZero ==
    (main_pc = "exited" /\ exit_cause \in {"interrupt", "interrupt_uncaught"})
        => /\ ExitStatus = 0
           /\ extracted_files \subseteq PersistedRecords

\* C12: no failure in the scan or in an event handler leaves it: main() is
\* not ended by an exception out of process_existing_rar_files and the
\* observer thread is not ended by one out of on_created.
C12_DiscoveryFailuresStayInside ==
    /\ exit_cause # "scan_error"
    /\ observer = "dead" => main_pc = "exited" /\ exit_cause \in {"interrupt", "save_error"}

\* the volumes of the one multi-volume archive "show"
ShowVolumes == {"show.part1.rar", "show.part2.rar"}

\* C13: the store holds at most one record for the multi-volume archive
\* "show", however its volumes were discovered.
C13_OneRecordPerArchive == Cardinality(extracted_files \cap ShowVolumes) <= 1

\* the step stays inside one run of the program
SameProcess == ~ (main_pc' = MainOrder[1] /\ main_pc # MainOrder[1])

\* thread t, which has opened an archive, passes line 173 in this step
LeavesCheck(t) ==
    /\ frame[t].pc = "check"
    /\ frame'[t].pc # "check"
    /\ SameProcess
    /\ exit_cause' # "interrupt_uncaught"

\* no member of archive p carries the first-volume marker
NonFirst(p) == \A i \in DOMAIN Infolist(p) : ~ Infolist(p)[i].first_volume

\* archives that are a single file with no sibling volumes
SingleFile == {"movie.rar"}

\* C14: a single-file archive that has been opened goes on to the
\* extraction of its members.
C14_SingleFileIsExtracted ==
    [][\A t \in Threads :
          (LeavesCheck(t) /\ frame[t].path \in SingleFile) => frame'[t].pc = "tmp_open"]_vars

\* the observer thread takes e from its queue in this step
Delivered(e) ==
    /\ observer = "running" /\ observer' = "running"
    /\ frame["observer"].pc = "idle"
    /\ e \in other_events /\ other_events' = other_events \ {e}

\* C15: a created or a modified event for a file whose name matches the
\* pattern, and which is not recorded, starts an attempt on it; every other
\* event starts none and leaves the records and the files as they are.
C15_OnlyCreatedAndModifiedAct ==
    [][/\ \A p \in Paths :
             (Discovers("observer", p) /\ p \notin extracted_files)
                 => frame'["observer"].pc = "open" /\ frame'["observer"].path = p
       /\ \A e \in other_events :
             Delivered(e) =>
                 IF /\ e.kind \in {"created", "modified"}
                    /\ ~ e.is_directory
                    /\ rar_pattern_match(file_ext(e.src_path))
                 THEN e.src_path \notin extracted_files
                          => /\ frame'["observer"].pc = "open"
                             /\ frame'["observer"].path = e.src_path
                 ELSE /\ frame' = frame
                      /\ extracted_files' = extracted_files
                      /\ fs' = fs]_vars

C17_SaveNeverFails == exit_cause # "save_error"

\* C18: inside one run of the program no step takes a record out of
\* extracted_files, and a snapshot written to extracted_files.json holds every
\* record of the snapshot it replaces.
C18_RecordsOnlyGrow ==
    [][SameProcess =>
          /\ extracted_files \subseteq extracted_files'
          /\ (store_file.kind = "torn" /\ store_file'.kind = "json")
                 => prev_snapshot \subseteq store_file'.recs]_vars

\* a second snapshot has replaced a smaller one after a deleted event for a
\* recorded archive was handled
C18_Witness ==
    /\ store_file.kind = "json"
    /\ prev_snapshot # {}
    /\ prev_snapshot # store_file.recs
    /\ \E p \in extracted_files : disk[p] = "absent"
    /\ other_events = {}
    /\ observer = "running"

\* a setting of mapping m that has the wrong type or is out of the range that
\* the messages of lines 60-96 state
BadSetting(m) ==
    \/ m.path.type \notin {"absent", "str"}
    \/ m.polling.type \notin {"absent", "bool"}
    \/ /\ m.interval.type # "absent"
       /\ m.interval.type \notin {"int", "float"} \/ m.interval.val <= 0 \/ m.interval.val > 300
    \/ m.log_file.type \notin {"absent", "str"}
    \/ m.debug.type \notin {"absent", "bool"}
    \/ /\ m.max_log_size.type # "absent"
       /\ m.max_log_size.type # "int" \/ m.max_log_size.val < 10 \/ m.max_log_size.val > 100
    \/ /\ m.log_backup_count.type # "absent"
       /\ \/ m.log_backup_count.type # "int"
          \/ m.log_backup_count.val < 1
          \/ m.log_backup_count.val > 100

\* neither the mapping nor the command line gives a path
NoPath == config.map.path.type = "absent" /\ args.path = None

ConfigError == config.kind # "mapping" \/ NoPath \/ BadSetting(config.map)

\* C16: with a configuration error main() does not get past its first step:
\* it is there or has exited with a non-zero status for that error.
C16_ConfigErrorStopsStartup ==
    ConfigError =>
        \/ main_pc = "config"
        \/ main_pc = "exited" /\ exit_cause = "config_error" /\ ExitStatus # 0

\* C20: a mapping without a path whose settings are all good does not end
\* the run as a configuration error when --path was given.
C20_PathFromCommandLine ==
    (/\ config.kind = "mapping"
     /\ config.map.path.type = "absent"
     /\ ~ BadSetting(config.map)
     /\ args.path # None)
        => exit_cause # "config_error"

====
